---- MODULE Spec2Model ----
(***************************************************************************)
(* A model of the bincode codec: the Decoder of src/serde/reader.rs        *)
(* (Deserializer, its SeqVisitor / MapVisitor / TupleVisitor and its       *)
(* VariantVisitor) and the Encoder of src/writer.rs (EncoderWriter).       *)
(*                                                                         *)
(* Representation of machine integers.  TLC's integers are 32 bits wide,   *)
(* so a u64 is kept as four 16-bit limbs, most significant first, and a    *)
(* u32 as two; arithmetic on the read counter is done on the limbs with    *)
(* carry, at the full 64-bit width of the code.                            *)
(***************************************************************************)
EXTENDS Integers, Sequences, FiniteSets, TLC

(***************************************************************************)
(* Bounds of the model.                                                    *)
(***************************************************************************)
\* Number of body chunks an input stream is assembled from.
MaxChunks == 1
\* Number of bytes that may be cut off the end of an input stream.
MaxCut == 1
\* Depth of nested visitors the script opens.
MaxDepth == 1
\* Largest number of bytes one short read of the source delivers.
MaxChunkRead == 2
\* Number of emit calls of one Encoder traversal.
MaxEmits == 4
\* Number of elements the script takes from one visitor object.
MaxYield == 2
\* Largest element count the script passes to visit_tuple.
MaxTupleLen == 1

(***************************************************************************)
(* Machine integers.                                                       *)
(***************************************************************************)
\* The radix of a limb: 2^16.
Limb == 256 * 256

Byte == 0..255

U64Zero == <<0, 0, 0, 0>>

U64Max == <<65535, 65535, 65535, 65535>>

\* A small natural number (below 2^31) as a u64.
U64FromNat(n) == <<0, 0, n \div Limb, n % Limb>>

\* Whether a u64 is small enough to be handled as a natural number of TLC.
U64IsSmall(a) == a[1] = 0 /\ a[2] = 0 /\ a[3] < 16384

U64ToNat(a) == a[3] * Limb + a[4]

\* a + b with the carry out of bit 63: <<sum mod 2^64, overflowed>>.
U64AddCarry(a, b) ==
    LET s4 == a[4] + b[4]
        s3 == a[3] + b[3] + (s4 \div Limb)
        s2 == a[2] + b[2] + (s3 \div Limb)
        s1 == a[1] + b[1] + (s2 \div Limb)
    IN  [sum |-> <<s1 % Limb, s2 % Limb, s3 % Limb, s4 % Limb>>,
         carry |-> s1 \div Limb > 0]

\* a <= b on u64, compared limb by limb from the most significant.
U64Leq(a, b) ==
    \/ a[1] < b[1]
    \/ a[1] = b[1] /\ a[2] < b[2]
    \/ a[1] = b[1] /\ a[2] = b[2] /\ a[3] < b[3]
    \/ a[1] = b[1] /\ a[2] = b[2] /\ a[3] = b[3] /\ a[4] <= b[4]

\* a - 1 on u64, for a > 0.
U64Dec(a) ==
    IF a[4] > 0 THEN <<a[1], a[2], a[3], a[4] - 1>>
    ELSE IF a[3] > 0 THEN <<a[1], a[2], a[3] - 1, Limb - 1>>
    ELSE IF a[2] > 0 THEN <<a[1], a[2] - 1, Limb - 1, Limb - 1>>
    ELSE <<a[1] - 1, Limb - 1, Limb - 1, Limb - 1>>

Min(a, b) == IF a <= b THEN a ELSE b

(***************************************************************************)
(* Big-endian byte order (byteorder::BigEndian, the write_be_ family).     *)
(***************************************************************************)
\* The bytes of a sequence of 16-bit limbs, most significant byte first.
RECURSIVE LimbsToBE(_)
LimbsToBE(ls) ==
    IF ls = <<>> THEN <<>>
    ELSE <<ls[1] \div 256, ls[1] % 256>> \o LimbsToBE(Tail(ls))

\* The 16-bit limbs a big-endian byte sequence of even length holds.
RECURSIVE BEToLimbs(_)
BEToLimbs(bs) ==
    IF Len(bs) < 2 THEN <<>>
    ELSE <<bs[1] * 256 + bs[2]>> \o BEToLimbs(SubSeq(bs, 3, Len(bs)))

(***************************************************************************)
(* UTF-8.                                                                  *)
(***************************************************************************)
\* UTF8_CHAR_WIDTH: the width of the code point a lead byte starts, 0 for a
\* byte that starts none.
utf8_char_width(b) ==
    IF b < 128 THEN 1
    ELSE IF b < 194 THEN 0
    ELSE IF b < 224 THEN 2
    ELSE IF b < 240 THEN 3
    ELSE IF b < 245 THEN 4
    ELSE 0

IsCont(b) == b >= 128 /\ b <= 191

\* Whether the first w bytes of bs are one well-formed UTF-8 code point of
\* width w (str::from_utf8 on a buffer of exactly one code point).
ValidCodePoint(bs, w) ==
    /\ w >= 1
    /\ Len(bs) >= w
    /\ utf8_char_width(bs[1]) = w
    /\ \A i \in 2..w : IsCont(bs[i])
    /\ (w = 3 /\ bs[1] = 224) => bs[2] >= 160
    /\ (w = 3 /\ bs[1] = 237) => bs[2] <= 159
    /\ (w = 4 /\ bs[1] = 240) => bs[2] >= 144
    /\ (w = 4 /\ bs[1] = 244) => bs[2] <= 143

\* The code point the first w bytes of bs hold.
CodePointOf(bs, w) ==
    IF w = 1 THEN bs[1]
    ELSE IF w = 2 THEN (bs[1] % 32) * 64 + (bs[2] % 64)
    ELSE IF w = 3 THEN (bs[1] % 16) * 4096 + (bs[2] % 64) * 64 + (bs[3] % 64)
    ELSE (bs[1] % 8) * 262144 + (bs[2] % 64) * 4096 + (bs[3] % 64) * 64
         + (bs[4] % 64)

\* char::len_utf8.
len_utf8(c) ==
    IF c < 128 THEN 1 ELSE IF c < 2048 THEN 2 ELSE IF c < 65536 THEN 3 ELSE 4

\* The UTF-8 encoding of a code point (Writer::write_char).
EncodeUtf8(c) ==
    IF c < 128 THEN <<c>>
    ELSE IF c < 2048 THEN <<192 + (c \div 64), 128 + (c % 64)>>
    ELSE IF c < 65536 THEN
        <<224 + (c \div 4096), 128 + ((c \div 64) % 64), 128 + (c % 64)>>
    ELSE <<240 + (c \div 262144), 128 + ((c \div 4096) % 64),
           128 + ((c \div 64) % 64), 128 + (c % 64)>>

\* Whether a byte sequence is well-formed UTF-8 (String::from_utf8).
RECURSIVE ValidUtf8(_)
ValidUtf8(bs) ==
    IF bs = <<>> THEN TRUE
    ELSE LET w == utf8_char_width(bs[1])
         IN  /\ ValidCodePoint(bs, w)
             /\ ValidUtf8(SubSeq(bs, w + 1, Len(bs)))

(***************************************************************************)
(* State.                                                                  *)
(***************************************************************************)
VARIABLES
    input,          \* the bytes the Decoder's source holds
    overflowChecks, \* whether the build traps integer overflow (debug build)
    dec,            \* one Deserializer per configured size limit, all run
                    \* over the same source with the same script of calls
    out,            \* the bytes written to the Encoder's sink
    emitted,        \* the calls made on the Encoder, in order
    estack,         \* the closures of the Encoder that are still open
    phase,          \* "free": the Decoder runs any script of calls over any
                    \* source; "encode", "decode": the Encoder writes a
                    \* value, then the Decoder reads it back
    cursor          \* "decode": the number of emitted calls read back

vars == <<input, overflowChecks, dec, out, emitted, estack, phase, cursor>>

\* SizeLimit::Infinite and SizeLimit::Bounded(x).
Infinite == <<>>

Bounded(x) == <<x>>

\* The limits the Deserializers are configured with.
LimitSamples == {0, 1, 3, 8, 9}

Limits == {Infinite} \cup {Bounded(x) : x \in LimitSamples}

\* The fixed-width numeric shapes: size_of in bytes, and whether the value
\* is a two's complement integer.
NumWidth ==
    [u8 |-> 1, u16 |-> 2, u32 |-> 4, u64 |-> 8, usize |-> 8,
     i8 |-> 1, i16 |-> 2, i32 |-> 4, i64 |-> 8, isize |-> 8,
     f32 |-> 4, f64 |-> 8]

NumTypes == DOMAIN NumWidth

Signed(ty) == ty \in {"i8", "i16", "i32", "i64", "isize"}

\* The value a fixed-width big-endian field holds: one number for a width
\* of 1 or 2 bytes, 16-bit limbs (most significant first) above; a signed
\* shape reads its top bit as the sign.
NumFromBE(ty, bs) ==
    LET w == Len(bs)
        u == IF w = 1 THEN <<bs[1]>> ELSE BEToLimbs(bs)
        top == IF w = 1 THEN 256 ELSE Limb
    IN  IF Signed(ty) /\ u[1] >= top \div 2
        THEN <<u[1] - top>> \o Tail(u)
        ELSE u

\* The big-endian bytes of a value of a numeric shape (write_be_*, write_u8,
\* write_i8).
NumToBE(ty, v) ==
    LET w == NumWidth[ty]
        top == IF w = 1 THEN 256 ELSE Limb
        u == IF v[1] < 0 THEN <<v[1] + top>> \o Tail(v) ELSE v
    IN  IF w = 1 THEN <<u[1]>> ELSE LimbsToBE(u)

\* The last call made on a Deserializer: the operation, the value handed
\* to the visitor (empty when none was), and whether a read of the call
\* met end-of-stream.
NoCall == [op |-> "new", ty |-> "", val |-> <<>>, eof |-> FALSE]

\* Deserializer::new.
NewDeserializer(limit) ==
    [size_limit |-> limit,
     pos |-> 0,              \* bytes consumed from the reader
     read |-> U64Zero,
     status |-> "ok",        \* "ok", or the DeserializeError / "panic"
     detail |-> <<>>,        \* InvalidEncoding.detail: the offending byte
     pc |-> "idle",          \* "idle", or "char_loop" inside visit_char
     buf |-> <<>>,           \* visit_char: buf, start, width
     start |-> 0,
     width |-> 0,
     stack |-> <<>>,         \* the SeqVisitor / MapVisitor / TupleVisitor
                             \* objects alive, innermost last
     last |-> NoCall]

IsOk(d) == d.status = "ok"

\* An Err return: try! hands it up through every caller, so the visitor
\* objects and visit_char's locals are gone.
Fail(d, err) ==
    [d EXCEPT !.status = err, !.stack = <<>>, !.pc = "idle", !.buf = <<>>,
              !.start = 0, !.width = 0]

Avail(d) == Len(input) - d.pos

(***************************************************************************)
(* The Deserializer's operations, each a function of the Deserializer      *)
(* before the call.                                                        *)
(***************************************************************************)
\* read_bytes: self.read += count, then the limit check.  The addition is
\* a u64 addition: the debug build panics on overflow, the release build
\* wraps.
read_bytes_inverted(d, count) ==
    LET ac == U64AddCarry(d.read, count)
        d1 == [d EXCEPT !.read = ac.sum]
    IN  IF ac.carry /\ overflowChecks THEN Fail(d, "panic")
        ELSE IF d.size_limit = Infinite THEN d1
        ELSE IF U64Leq(U64FromNat(d.size_limit[1]), d1.read) THEN d1
        ELSE Fail(d1, "SizeLimit")

read_bytes(d, count) ==
    LET ac == U64AddCarry(d.read, count)
        d1 == [d EXCEPT !.read = ac.sum]
    IN  IF ac.carry /\ overflowChecks THEN Fail(d, "panic")
        ELSE IF d.size_limit = Infinite THEN d1
        ELSE IF U64Leq(d1.read, U64FromNat(d.size_limit[1])) THEN d1
        ELSE Fail(d1, "SizeLimit")

\* read_type::<T>: read_bytes(size_of::<T>()).
read_type(d, ty) == read_bytes(d, U64FromNat(NumWidth[ty]))

\* The n bytes of the source after the Deserializer's position.
Peek(d, n) == SubSeq(input, d.pos + 1, d.pos + n)

\* ReadBytesExt::read_u8 .. read_f64: n bytes in full, or UnexpectedEOF
\* (EndOfStreamError) after draining what the source still held.
ReadFull(d, n) ==
    IF Avail(d) >= n THEN [d EXCEPT !.pos = d.pos + n]
    ELSE Fail([d EXCEPT !.pos = Len(input)], "EndOfStreamError")

\* Read::read on a buffer of buflen bytes, the source delivering at most
\* chunk bytes at a time: the number of bytes transferred.
ReadSome(d, buflen, chunk) == Min(Min(buflen, chunk), Avail(d))

\* A value has been handed over: the visitor object that asked for it, if
\* any, has its element.
Complete(d) ==
    IF d.stack # <<>> /\ d.stack[Len(d.stack)].pending
    THEN [d EXCEPT !.stack[Len(d.stack)].pending = FALSE,
                   !.stack[Len(d.stack)].yielded = @ + 1]
    ELSE d

\* The record of a call on the Deserializer, d after it.
Called(d, op, ty, val) ==
    [d EXCEPT !.last = [op |-> op, ty |-> ty,
                        val |-> IF IsOk(d) THEN val ELSE <<>>,
                        eof |-> FALSE]]

\* The fixed-width read shared by visit_u8, visit_i8 and impl_nums!:
\* read_type, then the reader method; the Deserializer after it.
ReadNum_reads_first(d, ty) ==
    LET d1 == ReadFull(d, NumWidth[ty])
    IN  IF IsOk(d1) THEN read_type(d1, ty) ELSE d1

ReadNum(d, ty) ==
    LET d1 == read_type(d, ty)
    IN  IF IsOk(d1) THEN ReadFull(d1, NumWidth[ty]) ELSE d1

\* visit_u8, visit_i8, impl_nums!, visit_usize, visit_isize (num::cast to a
\* 64-bit usize / isize never fails).
visit_num(d, ty) ==
    LET d2 == ReadNum(d, ty)
        v == NumFromBE(ty, Peek(d, NumWidth[ty]))
    IN  Called(IF IsOk(d2) THEN Complete(d2) ELSE d2, "num", ty, v)

\* visit_bool.
visit_bool_nonzero_true(d) ==
    LET d2 == ReadNum(d, "u8")
        value == Peek(d, 1)
        d3 == IF ~IsOk(d2) THEN d2 ELSE Complete(d2)
    IN  Called(d3, "bool", "", IF value[1] = 0 THEN <<0>> ELSE <<1>>)

visit_bool(d) ==
    LET d2 == ReadNum(d, "u8")
        value == Peek(d, 1)
        d3 == IF ~IsOk(d2) THEN d2
              ELSE IF value[1] \in {0, 1} THEN Complete(d2)
              ELSE [Fail(d2, "InvalidEncoding") EXCEPT !.detail = value]
    IN  Called(d3, "bool", "", value)

\* visit_unit.
visit_unit(d) == Called(Complete(d), "unit", "", <<>>)

\* visit_option: the tag; after some, the payload is decoded by the calls
\* that follow on the same Deserializer.
visit_option(d) ==
    LET d2 == ReadNum(d, "u8")
        value == Peek(d, 1)
        d3 == IF ~IsOk(d2) THEN d2
              ELSE IF value[1] = 0 THEN Complete(d2)
              ELSE IF value[1] = 1 THEN d2
              ELSE [Fail(d2, "InvalidEncoding") EXCEPT !.detail = value]
    IN  Called(d3, "option", "", value)

\* The number of bytes Read::take(len).read_to_end transfers.
TakeCount(d, len) ==
    IF U64IsSmall(len) THEN Min(U64ToNat(len), Avail(d)) ELSE Avail(d)

\* visit_string.
visit_string(d) ==
    LET d2 == ReadNum(d, "u64")
        len == BEToLimbs(Peek(d, 8))
        d3 == IF IsOk(d2) THEN read_bytes(d2, len) ELSE d2
        n == TakeCount(d3, len)
        buffer == Peek(d3, n)
        d4 == IF ~IsOk(d3) THEN d3
              ELSE IF ValidUtf8(buffer)
                   THEN Complete([d3 EXCEPT !.pos = d3.pos + n])
              ELSE Fail([d3 EXCEPT !.pos = d3.pos + n], "InvalidEncoding")
    IN  Called(d4, "str", "", IF IsOk(d4) THEN buffer ELSE <<>>)

\* visit_char, up to the dispatch on the width of the lead byte: one read
\* into a one-byte buffer whose count is dropped, so at end-of-stream the
\* buffer keeps its initial 0.
visit_char(d) ==
    LET n == ReadSome(d, 1, 1)
        first_byte == IF n = 1 THEN input[d.pos + 1] ELSE 0
        width == utf8_char_width(first_byte)
        d1 == [d EXCEPT !.pos = d.pos + n]
        d2 == IF width = 1 THEN Complete(d1)
              ELSE IF width = 0 THEN Fail(d1, "InvalidEncoding")
              ELSE [d1 EXCEPT !.pc = "char_loop",
                              !.buf = <<first_byte, 0, 0, 0>>,
                              !.start = 1, !.width = width]
        c == Called(d2, "char", "",
                    IF width = 1 THEN <<first_byte>> ELSE <<>>)
    IN  [c EXCEPT !.last.eof = (n = 0)]

\* The bytes of buf with those of bs written from index start + 1 on.
Fill(buf, start, bs) ==
    [i \in 1..Len(buf) |->
        IF i > start /\ i <= start + Len(bs) THEN bs[i - start] ELSE buf[i]]

\* visit_char, after the loop: from_utf8, read_bytes, visitor.visit_char.
char_finish(d, buf) ==
    LET valid == ValidCodePoint(buf, d.width)
        res == CodePointOf(buf, d.width)
        d1 == [d EXCEPT !.pc = "idle", !.buf = <<>>, !.start = 0, !.width = 0]
        d2 == IF valid THEN read_bytes(d1, U64FromNat(len_utf8(res)))
              ELSE Fail(d1, "InvalidEncoding")
        d3 == IF IsOk(d2) THEN Complete(d2) ELSE d2
    IN  [d3 EXCEPT !.last.val = IF IsOk(d3) THEN <<res>> ELSE <<>>]

\* visit_char, one turn of the continuation loop: one read into
\* buf[start .. width]; the loop ends when the read filled the rest.
char_loop(d, chunk) ==
    LET want == d.width - d.start
        n == ReadSome(d, want, chunk)
        buf == Fill(d.buf, d.start, Peek(d, n))
        d1 == [d EXCEPT !.pos = d.pos + n, !.buf = buf,
                        !.last.eof = (n = 0)]
    IN  IF n = want THEN char_finish(d1, buf)
        ELSE [d1 EXCEPT !.start = d.start + n]

(***************************************************************************)
(* SeqVisitor, MapVisitor, TupleVisitor.  A visitor object is              *)
(* [kind, len, declared, yielded, pending]: len is the field the code      *)
(* counts down; declared is the count the object was made with, yielded    *)
(* the elements it has handed over, pending whether a visit call is        *)
(* waiting for its element to be decoded.                                  *)
(***************************************************************************)
NewVisitor(kind, len) ==
    [kind |-> kind, len |-> len, declared |-> len, yielded |-> 0,
     pending |-> FALSE]

Top(d) == d.stack[Len(d.stack)]

Pop(d) == [d EXCEPT !.stack = SubSeq(d.stack, 1, Len(d.stack) - 1)]

\* visit_seq and visit_map: the usize count, then the visitor object.
visit_counted(d, kind) ==
    LET d2 == ReadNum(d, "usize")
        len == BEToLimbs(Peek(d, 8))
        d3 == IF IsOk(d2)
              THEN [d2 EXCEPT !.stack = Append(@, NewVisitor(kind, len))]
              ELSE d2
    IN  Called(d3, kind, "", len)

visit_seq(d) == visit_counted(d, "seq")

visit_map(d) == visit_counted(d, "map")

\* visit_tuple (and visit_struct, VariantVisitor::visit_tuple and
\* visit_struct, which call it): no byte is read, _len is not kept.
visit_tuple(d, len) ==
    Called([d EXCEPT !.stack = Append(@, NewVisitor("tuple", U64FromNat(len)))],
           "tuple", "", U64FromNat(len))

\* SeqVisitor::visit and MapVisitor::visit_key up to the element's own
\* deserialize: Some (<<1>>) when len > 0, which is counted down, else
\* None (<<0>>).
counted_visit_keeps_len(d, op) ==
    LET f == Top(d)
        d1 == IF f.len # U64Zero
              THEN [d EXCEPT !.stack[Len(d.stack)].pending = TRUE]
              ELSE d
    IN  (Called(d1, op, f.kind,
                          IF f.len # U64Zero THEN <<1>> ELSE <<0>>))

counted_visit(d, op) ==
    LET f == Top(d)
        d1 == IF f.len # U64Zero
              THEN [d EXCEPT !.stack[Len(d.stack)].len = U64Dec(f.len),
                             !.stack[Len(d.stack)].pending = TRUE]
              ELSE d
    IN  (Called(d1, op, f.kind,
                          IF f.len # U64Zero THEN <<1>> ELSE <<0>>))

seq_visit(d) == counted_visit(d, "visit")

map_visit_key(d) == counted_visit(d, "visit_key")

\* MapVisitor::visit_value and TupleVisitor::visit up to the element's own
\* deserialize: no count is looked at.
uncounted_visit(d, op) ==
    (Called([d EXCEPT !.stack[Len(d.stack)].pending = TRUE],
                      op, Top(d).kind, <<1>>))

map_visit_value(d) == uncounted_visit(d, "visit_value")

tuple_visit(d) == uncounted_visit(d, "visit")

\* SeqVisitor::end and MapVisitor::end.
counted_end(d) ==
    (Called(IF Top(d).len = U64Zero THEN Complete(Pop(d))
                         ELSE Fail(d, "SyntaxError"),
                      "end", Top(d).kind, <<>>))

\* TupleVisitor::end.
tuple_end(d) == (Called(Complete(Pop(d)), "end", "tuple", <<>>))

\* VariantVisitor::visit_variant: the u32 index.
visit_variant(d) ==
    LET d2 == ReadNum(d, "u32")
    IN  Called(d2, "variant", "", BEToLimbs(Peek(d, 4)))

\* VariantVisitor::visit_unit.
variant_unit(d) == Called(Complete(d), "variant_unit", "", <<>>)

(***************************************************************************)
(* The sources the Decoder is run over.  Unframed: up to MaxChunks chunks  *)
(* (tags, code points of every width, an invalid lead byte, a bad          *)
(* continuation), cut short by up to MaxCut bytes.  Framed: a u64 count    *)
(* or length, then a payload that is complete, short, or ill-formed; a     *)
(* byte, then the length 2^64 - 9, which added to the 9 bytes accounted    *)
(* before it is 2^64.                                                      *)
(***************************************************************************)
BodyChunks ==
    {<<0>>, <<1>>, <<2>>, <<104>>, <<188>>, <<195, 188>>, <<226, 188, 188>>,
     <<240, 188, 188, 188>>, <<195, 104>>}

RECURSIVE Bodies(_)
Bodies(k) ==
    IF k = 0 THEN {<<>>}
    ELSE Bodies(k - 1) \cup {b \o c : b \in Bodies(k - 1), c \in BodyChunks}

Unframed ==
    {SubSeq(b, 1, Len(b) - cut) :
        <<b, cut>> \in {t \in Bodies(MaxChunks) \X (0..MaxCut) :
                          t[2] <= Len(t[1])}}

Framed ==
    {LimbsToBE(U64FromNat(0)),
     LimbsToBE(U64FromNat(1)) \o <<188>>,
     LimbsToBE(U64FromNat(2)) \o <<104>>,
     LimbsToBE(U64FromNat(2)) \o <<195, 188>>,
     LimbsToBE(U64Max) \o <<104>>,
     <<1>> \o LimbsToBE(<<Limb - 1, Limb - 1, Limb - 1, Limb - 9>>) \o <<104>>}

Inputs == Unframed \cup Framed

(***************************************************************************)
(* The script: the calls the visitor side makes on the Decoder.            *)
(***************************************************************************)
\* A value may be asked of the Deserializer: it is inside no call, and the
\* innermost visitor object, if any, is waiting for its element.
ValueSlot(d) ==
    /\ IsOk(d)
    /\ d.pc = "idle"
    /\ IF d.stack = <<>> THEN TRUE ELSE Top(d).pending

\* A call may be made on the innermost visitor object, of the given kind.
VisitorSlot(d, kind) ==
    /\ IsOk(d)
    /\ d.pc = "idle"
    /\ d.stack # <<>>
    /\ Top(d).kind = kind
    /\ ~Top(d).pending

\* The script makes the call: any call when the Decoder runs free, the
\* call that reads back the next emitted one otherwise.
ScriptAllows(op, ty) ==
    IF phase = "free" THEN TRUE
    ELSE /\ phase = "decode"
         /\ cursor < Len(emitted)
         /\ emitted[cursor + 1].op = op
         /\ emitted[cursor + 1].ty = ty

Advance ==
    /\ cursor' = IF phase = "decode" THEN cursor + 1 ELSE cursor
    /\ UNCHANGED <<input, overflowChecks, out, emitted, estack, phase>>

\* A failed traversal is over: its Deserializer is discarded.
Dropped(d) ==
    [NewDeserializer(d.size_limit) EXCEPT !.status = "dropped"]

\* One call of the script, made on every Deserializer that is at the place
\* G where the call can be made; F is the call.
Call(G(_), F(_)) ==
    /\ \E l \in DOMAIN dec : G(dec[l])
    /\ dec' = [l \in DOMAIN dec |->
                IF G(dec[l]) THEN F(dec[l])
                ELSE IF IsOk(dec[l]) THEN dec[l]
                ELSE Dropped(dec[l])]

\* A new visitor object may be opened.
OpenSlot(d) == ValueSlot(d) /\ Len(d.stack) < MaxDepth

\* The script asks the innermost visitor object for one more element.
MoreSlot(d, kind) ==
    /\ VisitorSlot(d, kind)
    /\ phase = "free" => Top(d).yielded < MaxYield

InCharLoop(d) == IsOk(d) /\ d.pc = "char_loop"

VisitNum ==
    \E ty \in NumTypes :
        /\ ScriptAllows("num", ty)
        /\ Call(ValueSlot, LAMBDA d : visit_num(d, ty))
        /\ Advance

VisitBool ==
    /\ ScriptAllows("bool", "")
    /\ Call(ValueSlot, visit_bool)
    /\ Advance

VisitUnit ==
    /\ ScriptAllows("unit", "")
    /\ Call(ValueSlot, visit_unit)
    /\ Advance

VisitOption ==
    /\ ScriptAllows("option", "")
    /\ Call(ValueSlot, visit_option)
    /\ Advance

VisitChar ==
    /\ ScriptAllows("char", "")
    /\ Call(ValueSlot, visit_char)
    /\ Advance

\* The next read of visit_char's loop, the source delivering up to chunk
\* bytes.
CharLoop ==
    \E chunk \in 1..MaxChunkRead :
        /\ Call(InCharLoop, LAMBDA d : char_loop(d, chunk))
        /\ UNCHANGED <<input, overflowChecks, out, emitted, estack, phase,
                       cursor>>

VisitString ==
    /\ ScriptAllows("str", "")
    /\ Call(ValueSlot, visit_string)
    /\ Advance

VisitSeq ==
    /\ ScriptAllows("seq", "")
    /\ Call(OpenSlot, visit_seq)
    /\ Advance

VisitMap ==
    /\ ScriptAllows("map", "")
    /\ Call(OpenSlot, visit_map)
    /\ Advance

VisitTuple ==
    \E len \in 0..MaxTupleLen :
        /\ ScriptAllows("tuple", "")
        /\ phase = "decode" => emitted[cursor + 1].val = U64FromNat(len)
        /\ Call(OpenSlot, LAMBDA d : visit_tuple(d, len))
        /\ Advance

SeqVisit ==
    /\ ScriptAllows("visit", "seq")
    /\ Call(LAMBDA d : MoreSlot(d, "seq"), seq_visit)
    /\ Advance

SeqEnd ==
    /\ ScriptAllows("end", "seq")
    /\ Call(LAMBDA d : VisitorSlot(d, "seq"), counted_end)
    /\ Advance

MapVisitKey ==
    /\ ScriptAllows("visit_key", "map")
    /\ Call(LAMBDA d : MoreSlot(d, "map"), map_visit_key)
    /\ Advance

MapVisitValue ==
    /\ ScriptAllows("visit_value", "map")
    /\ Call(LAMBDA d : MoreSlot(d, "map"), map_visit_value)
    /\ Advance

MapEnd ==
    /\ ScriptAllows("end", "map")
    /\ Call(LAMBDA d : VisitorSlot(d, "map"), counted_end)
    /\ Advance

TupleVisit ==
    /\ ScriptAllows("visit", "tuple")
    /\ Call(LAMBDA d : MoreSlot(d, "tuple"), tuple_visit)
    /\ Advance

TupleEnd ==
    /\ ScriptAllows("end", "tuple")
    /\ Call(LAMBDA d : VisitorSlot(d, "tuple"), tuple_end)
    /\ Advance

VisitVariant ==
    /\ ScriptAllows("variant", "")
    /\ Call(ValueSlot, visit_variant)
    /\ Advance

VariantUnit ==
    /\ ScriptAllows("variant_unit", "")
    /\ Call(ValueSlot, variant_unit)
    /\ Advance

DecoderStep ==
    \/ VisitNum
    \/ VisitBool
    \/ VisitUnit
    \/ VisitOption
    \/ VisitChar
    \/ CharLoop
    \/ VisitString
    \/ VisitSeq
    \/ VisitMap
    \/ VisitTuple
    \/ SeqVisit
    \/ SeqEnd
    \/ MapVisitKey
    \/ MapVisitValue
    \/ MapEnd
    \/ TupleVisit
    \/ TupleEnd
    \/ VisitVariant
    \/ VariantUnit

(***************************************************************************)
(* The Encoder (EncoderWriter).  It holds nothing but the sink; estack is  *)
(* the closures f the caller has open: [kind, left, slot], left the        *)
(* elements the caller has still to emit, slot whether an element closure  *)
(* is open and waiting for its value.  Every emit call is recorded with    *)
(* the offset of the sink it wrote at, as the call that reads it back.     *)
(***************************************************************************)
Event(op, ty, val) == [op |-> op, ty |-> ty, val |-> val, at |-> Len(out)]

\* A value has been emitted: a some closure ends with its payload, an
\* element closure with its value.
RECURSIVE EComplete(_)
EComplete(st) ==
    IF st = <<>> THEN st
    ELSE IF st[Len(st)].kind = "some"
         THEN EComplete(SubSeq(st, 1, Len(st) - 1))
    ELSE [st EXCEPT ![Len(st)].slot = FALSE]

EFrame(kind, left) == [kind |-> kind, left |-> left, slot |-> FALSE]

\* The caller may emit a value: the traversal has not begun, or the
\* innermost closure waits for one.
EValueSlot ==
    /\ phase = "encode"
    /\ IF estack = <<>> THEN emitted = <<>>
       ELSE IF estack[Len(estack)].kind = "some" THEN TRUE
       ELSE estack[Len(estack)].slot

\* The number of values emitted so far.
Leaves ==
    Cardinality({i \in 1..Len(emitted) :
        emitted[i].op \in {"num", "bool", "unit", "char", "str"}})

ELeafSlot == EValueSlot /\ Leaves < MaxEmits

EOpenSlot == EValueSlot /\ Len(estack) < MaxDepth

\* The caller's closure of the given kind is between two elements.
EClosureSlot(kind) ==
    /\ phase = "encode"
    /\ estack # <<>>
    /\ estack[Len(estack)].kind = kind
    /\ ~estack[Len(estack)].slot

ETop == estack[Len(estack)]

EPop == SubSeq(estack, 1, Len(estack) - 1)

EUnchanged == UNCHANGED <<input, overflowChecks, dec, phase, cursor>>

\* Sample values of the numeric shapes: the extremes and a value whose
\* bytes all differ.
NumSamples(ty) ==
    LET w == NumWidth[ty]
    IN  IF w = 1 THEN (IF Signed(ty) THEN {<<-128>>, <<5>>} ELSE {<<7>>, <<255>>})
        ELSE IF w = 2
             THEN (IF Signed(ty) THEN {<<-2>>, <<2571>>} ELSE {<<2571>>, <<65535>>})
        ELSE IF w = 4
             THEN (IF Signed(ty) THEN {<<-1, 65535>>} ELSE {<<4660, 22136>>})
        ELSE (IF Signed(ty) THEN {<<-32768, 0, 0, 1>>} ELSE {<<1, 2, 3, 4>>})

\* emit_u8 .. emit_f64; emit_uint and emit_int, which go through emit_u64
\* and emit_i64.
EmitNum ==
    \E ty \in NumTypes : \E v \in NumSamples(ty) :
        /\ ELeafSlot
        /\ out' = out \o NumToBE(ty, v)
        /\ emitted' = Append(emitted, Event("num", ty, v))
        /\ estack' = EComplete(estack)
        /\ EUnchanged

\* emit_bool.
EmitBool ==
    \E v \in {0, 1} :
        /\ ELeafSlot
        /\ out' = out \o <<IF v = 1 THEN 1 ELSE 0>>
        /\ emitted' = Append(emitted, Event("bool", "", <<v>>))
        /\ estack' = EComplete(estack)
        /\ EUnchanged

\* emit_nil.
EmitNil ==
    /\ ELeafSlot
    /\ out' = out
    /\ emitted' = Append(emitted, Event("unit", "", <<>>))
    /\ estack' = EComplete(estack)
    /\ EUnchanged

\* Code points of every encoded width.
CharSamples == {104, 252, 8364, 128512}

\* emit_char.
EmitChar ==
    \E c \in CharSamples :
        /\ ELeafSlot
        /\ out' = out \o EncodeUtf8(c)
        /\ emitted' = Append(emitted, Event("char", "", <<c>>))
        /\ estack' = EComplete(estack)
        /\ EUnchanged

\* Strings, as their UTF-8 bytes: "", "hi", "ü".
StrSamples == {<<>>, <<104, 105>>, <<195, 188>>}

\* emit_uint: usize as u64.
emit_uint_as_u32(sink, v) == sink \o LimbsToBE(<<v \div Limb, v % Limb>>)

emit_uint(sink, v) == sink \o LimbsToBE(U64FromNat(v))

\* emit_str.
EmitStr ==
    \E v \in StrSamples :
        /\ ELeafSlot
        /\ out' = emit_uint(out, Len(v)) \o v
        /\ emitted' = Append(emitted, Event("str", "", v))
        /\ estack' = EComplete(estack)
        /\ EUnchanged

\* emit_option_none.
EmitOptionNone ==
    /\ EValueSlot
    /\ out' = out \o <<0>>
    /\ emitted' = Append(emitted, Event("option", "", <<0>>))
    /\ estack' = EComplete(estack)
    /\ EUnchanged

\* emit_option_some: the tag, then the closure that emits the payload.
EmitOptionSome ==
    /\ EOpenSlot
    /\ out' = out \o <<1>>
    /\ emitted' = Append(emitted, Event("option", "", <<1>>))
    /\ estack' = Append(estack, EFrame("some", 1))
    /\ EUnchanged

\* emit_seq and emit_map: the count, then the closure.
EmitCounted(kind) ==
    \E len \in 0..MaxYield - 1 :
        /\ EOpenSlot
        /\ out' = emit_uint(out, len)
        /\ emitted' = Append(emitted, Event(kind, "", U64FromNat(len)))
        /\ estack' = Append(estack, EFrame(kind, len))
        /\ EUnchanged

EmitSeq == EmitCounted("seq")

EmitMap == EmitCounted("map")

\* An element closure (emit_seq_elt, emit_tuple_arg,
\* emit_enum_variant_arg): f(self), nothing is written.
EmitElt(kind, op) ==
    /\ EClosureSlot(kind)
    /\ ETop.left > 0
    /\ out' = out
    /\ emitted' = Append(emitted, Event(op, IF kind = "variant" THEN "tuple" ELSE kind, <<1>>))
    /\ estack' = [estack EXCEPT ![Len(estack)].left = @ - 1,
                                ![Len(estack)].slot = TRUE]
    /\ EUnchanged

EmitSeqElt == EmitElt("seq", "visit")

\* emit_map_elt_key: the closure of an entry's key; the entry's value is
\* to follow.
EmitMapEltKey ==
    /\ EClosureSlot("map")
    /\ ETop.left > 0
    /\ out' = out
    /\ emitted' = Append(emitted, Event("visit_key", "map", <<1>>))
    /\ estack' = [estack EXCEPT ![Len(estack)].left = @ - 1,
                                ![Len(estack)].kind = "mapkey",
                                ![Len(estack)].slot = TRUE]
    /\ EUnchanged

EmitTupleArg == EmitElt("tuple", "visit")

EmitEnumVariantArg == EmitElt("variant", "visit")

\* emit_map_elt_val: the value of the entry whose key was just emitted.
EmitMapEltVal ==
    /\ EClosureSlot("mapkey")
    /\ out' = out
    /\ emitted' = Append(emitted, Event("visit_value", "map", <<1>>))
    /\ estack' = [estack EXCEPT ![Len(estack)].kind = "map",
                                ![Len(estack)].slot = TRUE]
    /\ EUnchanged

\* The closure of emit_seq / emit_map returns: the reader of the value
\* finds no more elements and ends the visitor.
EmitCountedReturn(kind, op) ==
    /\ EClosureSlot(kind)
    /\ ETop.left = 0
    /\ out' = out
    /\ emitted' = emitted \o <<Event(op, kind, <<0>>), Event("end", kind, <<>>)>>
    /\ estack' = EComplete(EPop)
    /\ EUnchanged

EmitSeqReturn == EmitCountedReturn("seq", "visit")

EmitMapReturn == EmitCountedReturn("map", "visit_key")

\* emit_tuple (emit_tuple_struct and emit_struct are the same code): the
\* closure only.
EmitTuple ==
    \E len \in 1..MaxTupleLen :
        /\ EOpenSlot
        /\ out' = out
        /\ emitted' = Append(emitted, Event("tuple", "", U64FromNat(len)))
        /\ estack' = Append(estack, EFrame("tuple", len))
        /\ EUnchanged

\* The closure of emit_tuple or emit_enum_variant returns.
EmitFixedReturn(kind) ==
    /\ EClosureSlot(kind)
    /\ ETop.left = 0
    /\ out' = out
    /\ emitted' = Append(emitted, Event("end", "tuple", <<>>))
    /\ estack' = EComplete(EPop)
    /\ EUnchanged

EmitTupleReturn == EmitFixedReturn("tuple")

EmitEnumVariantReturn == EmitFixedReturn("variant")

\* Variant indices.
VariantSamples == {0, 1, 2}

\* The bytes emit_enum_variant writes for the index v_id.
emit_variant_index(sink, v_id) == emit_uint(sink, v_id)

\* emit_enum_variant for a variant of cnt fields: the index, then the
\* closure that emits the fields.  The reader of a variant without fields
\* calls VariantVisitor::visit_unit, of a variant with fields visit_tuple.
EmitEnumVariant ==
    \E v_id \in VariantSamples : \E cnt \in 0..MaxTupleLen :
        /\ EOpenSlot
        /\ out' = emit_variant_index(out, v_id)
        /\ emitted' =
              LET ev == Event("variant", "", <<0, v_id>>)
                  after == [op |-> IF cnt = 0 THEN "variant_unit" ELSE "tuple",
                            ty |-> "",
                            val |-> IF cnt = 0 THEN <<>> ELSE U64FromNat(cnt),
                            at |-> Len(out')]
              IN  emitted \o <<ev, after>>
        /\ estack' = IF cnt = 0 THEN EComplete(estack)
                     ELSE Append(estack, EFrame("variant", cnt))
        /\ EUnchanged

\* The value is written: the Decoder is given the sink's bytes.
EncodeDone ==
    /\ phase = "encode"
    /\ estack = <<>>
    /\ emitted # <<>>
    /\ phase' = "decode"
    /\ input' = out
    /\ UNCHANGED <<overflowChecks, dec, out, emitted, estack, cursor>>

EncoderStep ==
    \/ EmitNum
    \/ EmitBool
    \/ EmitNil
    \/ EmitChar
    \/ EmitStr
    \/ EmitOptionNone
    \/ EmitOptionSome
    \/ EmitSeq
    \/ EmitSeqElt
    \/ EmitSeqReturn
    \/ EmitMap
    \/ EmitMapEltKey
    \/ EmitMapEltVal
    \/ EmitMapReturn
    \/ EmitTuple
    \/ EmitTupleArg
    \/ EmitTupleReturn
    \/ EmitEnumVariant
    \/ EmitEnumVariantArg
    \/ EmitEnumVariantReturn
    \/ EncodeDone

(***************************************************************************)
(* The Decoder run free: every limit, any source, any script.              *)
(***************************************************************************)
Init ==
    /\ input \in Inputs
    /\ overflowChecks \in BOOLEAN
    /\ dec = [l \in Limits |-> NewDeserializer(l)]
    /\ out = <<>>
    /\ emitted = <<>>
    /\ estack = <<>>
    /\ phase = "free"
    /\ cursor = 0

Next == DecoderStep

Spec == Init /\ [][Next]_vars

(***************************************************************************)
(* The round trip: the Encoder writes one value, then a Decoder with no    *)
(* size limit reads the sink back with the calls that mirror the emitted   *)
(* ones.                                                                   *)
(***************************************************************************)
InitRT ==
    /\ input = <<>>
    /\ overflowChecks \in BOOLEAN
    /\ dec = [l \in {Infinite} |-> NewDeserializer(l)]
    /\ out = <<>>
    /\ emitted = <<>>
    /\ estack = <<>>
    /\ phase = "encode"
    /\ cursor = 0

NextRT == EncoderStep \/ DecoderStep

SpecRT == InitRT /\ [][NextRT]_vars

(***************************************************************************)
(* C1.  Round trip: a Decoder with no size limit, run over exactly the     *)
(* bytes the Encoder emitted for a value, succeeds at every call, is       *)
(* handed at every call the value that was emitted, and has consumed all   *)
(* the emitted bytes and no more when the last call returns.               *)
(***************************************************************************)
ReadBack(d) ==
    /\ IsOk(d)
    /\ (cursor > 0 /\ d.pc = "idle") =>
          /\ d.last.op = emitted[cursor].op
          /\ d.last.val = emitted[cursor].val
    /\ (cursor = Len(emitted) /\ d.pc = "idle") => d.pos = Len(out)

C1_RoundTrip == phase = "decode" => ReadBack(dec[Infinite])

\* The values that hold no enum variant.
NoVariant == \A i \in 1..Len(emitted) : emitted[i].op # "variant"

\* The round trip of every value that holds no enum variant.
C1_RoundTripNoEnum == (phase = "decode" /\ NoVariant) => ReadBack(dec[Infinite])

(***************************************************************************)
(* C2.  Emitting an enum variant writes exactly 4 bytes, the index as a    *)
(* big-endian u32 (the width visit_variant consumes), and the payload      *)
(* follows immediately.                                                    *)
(***************************************************************************)
\* The bytes the i-th emitted call wrote before the next call was made.
Written(i) == SubSeq(out, emitted[i].at + 1, emitted[i + 1].at)

C2_VariantIndexU32 ==
    \A i \in 1..Len(emitted) :
        emitted[i].op = "variant" => Written(i) = LimbsToBE(emitted[i].val)

(***************************************************************************)
(* C3.  Under Bounded(N), no sequence of decode operations that all        *)
(* succeeded has consumed more than N bytes from the source.               *)
(***************************************************************************)
C3_SizeLimitBoundsConsumed ==
    \A l \in DOMAIN dec :
        (l # Infinite /\ IsOk(dec[l]) /\ dec[l].pc = "idle")
            => dec[l].pos <= l[1]

(***************************************************************************)
(* C5.  A string decode that succeeds delivers exactly as many bytes as    *)
(* its length prefix declares: it never delivers a string from a source    *)
(* that holds fewer.                                                       *)
(***************************************************************************)
\* The length prefix of the string the last call read, given the string.
DeclaredLen(d) ==
    LET at == d.pos - Len(d.last.val) - 8
    IN  BEToLimbs(SubSeq(input, at + 1, at + 8))

C5_StringExactLength ==
    \A l \in DOMAIN dec :
        (IsOk(dec[l]) /\ dec[l].last.op = "str")
            => U64FromNat(Len(dec[l].last.val)) = DeclaredLen(dec[l])

(***************************************************************************)
(* C6.  Once a read of visit_char has met end-of-stream before the code    *)
(* point was complete, visit_char has returned EndOfStreamError and has    *)
(* handed no char to the visitor.                                          *)
(***************************************************************************)
C6_CharEndOfStream ==
    \A l \in DOMAIN dec :
        (dec[l].last.op = "char" /\ dec[l].last.eof)
            => /\ dec[l].pc = "idle"
               /\ dec[l].status = "EndOfStreamError"

(***************************************************************************)
(* C8.  After any sequence of decode operations that all succeeded,        *)
(* bytes_read() is the number of bytes consumed from the source.           *)
(***************************************************************************)
bytes_read(d) == d.read

C8_BytesReadIsConsumed ==
    \A l \in DOMAIN dec :
        (IsOk(dec[l]) /\ dec[l].pc = "idle")
            => bytes_read(dec[l]) = U64FromNat(dec[l].pos)

(***************************************************************************)
(* C4.  Size-limit monotonicity.  All Deserializers run the same script    *)
(* over the same source; whenever the one with limit Bounded(N) has        *)
(* succeeded so far, every one with a limit Bounded(M), M >= N, or the     *)
(* unbounded limit has succeeded too, has delivered the same values and    *)
(* has consumed the same bytes: it is in the same state.                   *)
(***************************************************************************)
AtLeast(m, n) == IF m = Infinite THEN TRUE ELSE m[1] >= n[1]

C4_Monotone ==
    \A n \in DOMAIN dec : \A m \in DOMAIN dec :
        (n # Infinite /\ AtLeast(m, n) /\ IsOk(dec[n]))
            => dec[m] = [dec[n] EXCEPT !.size_limit = m]

\* A call that a smaller limit refused has succeeded under a larger one.
C4_Witness ==
    \E n \in DOMAIN dec : \E m \in DOMAIN dec :
        /\ n # Infinite /\ m # Infinite /\ m[1] < n[1]
        /\ dec[m].status = "SizeLimit"
        /\ IsOk(dec[n])
        /\ dec[n].pos > 0
        /\ dec[n].read = U64FromNat(dec[n].pos)

(***************************************************************************)
(* C7.  A SeqVisitor of declared count N: visit yields an element while    *)
(* fewer than N have been yielded, and once N have been yielded it         *)
(* returns None without consuming a byte or changing anything else; end    *)
(* succeeds if all N elements were yielded and fails with SyntaxError      *)
(* otherwise.                                                              *)
(***************************************************************************)
AllYielded(f) == U64FromNat(f.yielded) = f.declared

C7_SeqIterator ==
    [][\A l \in DOMAIN dec :
         VisitorSlot(dec[l], "seq") =>
            LET d == dec[l]
                e == dec'[l]
            IN  /\ e.last.op \in {"visit", "end"}
                /\ e.last.op = "visit" =>
                      IF AllYielded(Top(d))
                      THEN /\ e.last.val = <<0>>
                           /\ e = [d EXCEPT !.last = e.last]
                      ELSE /\ e.last.val = <<1>>
                           /\ IsOk(e) /\ Top(e).pending
                           /\ e.pos = d.pos /\ e.read = d.read
                /\ e.last.op = "end" =>
                      IF AllYielded(Top(d))
                      THEN /\ IsOk(e)
                           /\ e.stack = Complete(Pop(d)).stack
                           /\ e.pos = d.pos /\ e.read = d.read
                      ELSE e.status = "SyntaxError"]_vars

\* The one element of a sequence of count 1 was yielded, the next visit
\* returned None.
C7_Witness ==
    \E l \in DOMAIN dec :
        /\ VisitorSlot(dec[l], "seq")
        /\ Top(dec[l]).declared = U64FromNat(1)
        /\ Top(dec[l]).yielded = 1
        /\ dec[l].last.op = "visit"
        /\ dec[l].last.val = <<0>>

(***************************************************************************)
(* C9.  Size-limit pre-accounting.  The read counter after n more bytes    *)
(* were accounted, and whether a limit refuses that total.                 *)
(***************************************************************************)
Accounted(r, n) == U64AddCarry(r, n)

Exceeds(l, r) ==
    IF l = Infinite THEN FALSE ELSE ~U64Leq(r, U64FromNat(l[1]))

\* The width of the first fixed-width read of a call.
FirstWidth(call) ==
    CASE call.op = "num" -> NumWidth[call.ty]
      [] call.op \in {"bool", "option"} -> 1
      [] call.op = "variant" -> 4
      [] call.op \in {"str", "seq", "map"} -> 8

\* The string payload of the call from d to e, refused or admitted: a2 is
\* read with the length prefix and the declared length accounted.
PayloadAccounted(l, d, e, a2) ==
    IF a2.carry /\ overflowChecks THEN e.status = "panic"
    ELSE /\ e.read = a2.sum
         /\ IF Exceeds(l, e.read)
            THEN e.status = "SizeLimit" /\ e.pos = d.pos + 8
            ELSE e.status # "SizeLimit"

\* The first fixed-width read of the call from d to e, refused or admitted:
\* a1 is read with its width accounted.
FirstAccounted(l, d, e, a1) ==
    \/ a1.carry
    \/ IF e.last.op = "str" /\ Avail(d) >= 8 /\ ~Exceeds(l, a1.sum)
       THEN PayloadAccounted(l, d, e,
                             Accounted(a1.sum, BEToLimbs(Peek(d, 8))))
       ELSE /\ e.read = a1.sum
            /\ IF Exceeds(l, e.read)
               THEN e.status = "SizeLimit" /\ e.pos = d.pos
               ELSE e.status # "SizeLimit"

\* The step is one of the calls that read fixed-width data, made on the
\* Deserializer of limit l: its first read of N bytes was accounted before
\* it was issued (read has grown by N even if the source then ran dry) and
\* was refused with SizeLimit, at an unchanged position, when the limit is
\* exceeded.  For a string the same holds of the payload of L bytes, which
\* is refused at the position just after the length prefix.
PreAccounted(l) ==
    LET d == dec[l]
        e == dec'[l]
    IN  (/\ ValueSlot(d)
         /\ e.last.op \in {"num", "bool", "option", "variant", "str", "seq",
                           "map"})
        => FirstAccounted(l, d, e,
                          Accounted(d.read, U64FromNat(FirstWidth(e.last))))

\* The step is a read of visit_char on the Deserializer of limit l: the
\* bytes it consumed were accounted before, within the limit, and a
\* SizeLimit failure leaves the position unchanged.
CharPreAccounted(l) ==
    LET d == dec[l]
        e == dec'[l]
        n == e.pos - d.pos
        a == Accounted(d.read, U64FromNat(n))
    IN  (/\ ValueSlot(d) \/ InCharLoop(d)
         /\ e.last.op = "char"
         /\ e # d)
        => /\ e.status = "SizeLimit" => n = 0
           /\ n > 0 => /\ ~Exceeds(l, a.sum)
                       /\ U64Leq(a.sum, e.read)

C10_OneByteTag ==
    [][\A l \in DOMAIN dec :
         LET d == dec[l]
             e == dec'[l]
             a == Accounted(d.read, U64FromNat(1))
             b == input[d.pos + 1]
         IN  (/\ ValueSlot(d)
              /\ e.last.op \in {"bool", "option"}
              /\ Avail(d) >= 1
              /\ ~a.carry /\ ~Exceeds(l, a.sum))
             => /\ e.pos = d.pos + 1
                /\ e.read = a.sum
                /\ b = 0 => /\ IsOk(e) /\ e.last.val = <<0>>
                            /\ e.stack = Complete(d).stack
                /\ b = 1 => /\ IsOk(e) /\ e.last.val = <<1>>
                            /\ e.stack = IF e.last.op = "bool"
                                         THEN Complete(d).stack ELSE d.stack
                /\ b \notin {0, 1} => /\ e.status = "InvalidEncoding"
                                      /\ e.detail = <<b>>
                                      /\ e.last.val = <<>>]_vars

\* A tag byte other than 0 and 1 was read and refused.
C10_Witness ==
    \E l \in DOMAIN dec :
        /\ dec[l].last.op \in {"bool", "option"}
        /\ dec[l].status = "InvalidEncoding"
        /\ dec[l].detail = <<188>>
        /\ dec[l].pos = 1

(***************************************************************************)
(* C11.  Every string, sequence and map the Encoder emits begins with 8    *)
(* bytes holding the byte length / element count / entry count as a        *)
(* big-endian u64, most significant byte first; a string's bytes follow    *)
(* at once and nothing else is written by emit_str, so an empty string is  *)
(* exactly 8 zero bytes; the elements of a sequence or map are written     *)
(* after the count, in call order.                                         *)
(***************************************************************************)
\* The 8 bytes of a count below 2^31 as a big-endian u64, byte by byte.
BigEndianU64(n) ==
    [k \in 1..8 |-> IF k <= 4 THEN 0 ELSE (n \div (256 ^ (8 - k))) % 256]

\* Where the bytes written by the i-th emitted call end.
WrittenUpTo(i) == IF i < Len(emitted) THEN emitted[i + 1].at ELSE Len(out)

C11_LengthPrefix ==
    \A i \in 1..Len(emitted) :
        LET ev == emitted[i]
            prefix == SubSeq(out, ev.at + 1, ev.at + 8)
        IN  /\ ev.at <= WrittenUpTo(i)
            /\ WrittenUpTo(i) <= Len(out)
            /\ ev.op = "str" =>
                  /\ WrittenUpTo(i) = ev.at + 8 + Len(ev.val)
                  /\ prefix = BigEndianU64(Len(ev.val))
                  /\ SubSeq(out, ev.at + 9, ev.at + 8 + Len(ev.val)) = ev.val
            /\ ev.op \in {"seq", "map"} =>
                  /\ WrittenUpTo(i) = ev.at + 8
                  /\ prefix = BigEndianU64(U64ToNat(ev.val))

\* A sequence of one element, the string "hi", has been emitted.
C11_Witness ==
    \E i \in 1..Len(emitted) :
        /\ emitted[i].op = "seq"
        /\ emitted[i].val = U64FromNat(1)
        /\ i + 2 <= Len(emitted)
        /\ emitted[i + 2].op = "str"
        /\ emitted[i + 2].val = <<104, 105>>
        /\ Len(out) = 18

(***************************************************************************)
(* C12.  The visitor object of visit_tuple(len) reads no length prefix     *)
(* and is bounded by len: visit yields an element while fewer than len     *)
(* have been yielded, and once len have been yielded it returns None       *)
(* without consuming a byte; end succeeds only if exactly len elements     *)
(* were yielded.                                                           *)
(***************************************************************************)
C12_TupleIterator ==
    [][\A l \in DOMAIN dec :
         LET d == dec[l]
             e == dec'[l]
         IN  /\ (ValueSlot(d) /\ e.last.op = "tuple" /\ e # d) =>
                   e.pos = d.pos /\ e.read = d.read
             /\ VisitorSlot(d, "tuple") =>
                   /\ e.last.op = "visit" =>
                         IF AllYielded(Top(d))
                         THEN /\ e.last.val = <<0>>
                              /\ e.pos = d.pos /\ e.read = d.read
                              /\ e.stack = d.stack
                         ELSE /\ e.last.val = <<1>>
                              /\ IsOk(e) /\ Top(e).pending
                   /\ e.last.op = "end" =>
                         (IsOk(e) <=> AllYielded(Top(d)))]_vars

(***************************************************************************)
(* C13.  The read counter never decreases: after any call on a             *)
(* Deserializer, successful or failing, read is at least what it was       *)
(* before the call.                                                        *)
(***************************************************************************)
C13_ReadMonotone ==
    [][\A l \in DOMAIN dec :
         dec'[l].status # "dropped" => U64Leq(dec[l].read, dec'[l].read)]_vars

====
